---- MODULE Spec2Model ----
(***************************************************************************)
(* JSWST: the interactive region capture of the Wayland screenshot tool.   *)
(*                                                                         *)
(* The model covers the selection overlay (src/ui/overlay.rs), the capture *)
(* pipeline it starts (src/cli/commands.rs, src/cli/args.rs,               *)
(* src/capture/factory.rs, src/capture/wayland.rs, src/export/mod.rs) and  *)
(* the Region type (src/lib.rs).  The program is entered either through    *)
(* the overlay (entry "gui") or through a headless command line (entry     *)
(* "cli"); both run the same cli::execute pipeline.                        *)
(*                                                                         *)
(* Integers: i32 and u32 are modelled as two's complement words of Bits    *)
(* bits (signed and unsigned), so that every overflow, wrapping cast and   *)
(* saturating cast of the source has its counterpart.  Pointer coordinates *)
(* (f64) are fixed-point numbers counted in halves of a pixel.             *)
(***************************************************************************)
EXTENDS Integers, Sequences, FiniteSets, TLC

\* ------------------------------------------------------------------ bounds

\* Width in bits of the machine words standing for i32 / u32.
Bits == 13
\* Confirm keys that spawn a capture task are followed up to this many tasks.
MaxTasks == 2

\* ------------------------------------------------------------ machine words

RECURSIVE Pow2(_)
Pow2(n) == IF n = 0 THEN 1 ELSE 2 * Pow2(n - 1)

I32Min == -Pow2(Bits - 1)
I32Max == Pow2(Bits - 1) - 1
U32Max == Pow2(Bits) - 1
Modulus == Pow2(Bits)

\* Option<T>: None is the empty sequence and Some(v) the sequence holding v.
None == <<>>
Some(v) == <<v>>
Unwrap(o) == o[1]

Min(a, b) == IF a <= b THEN a ELSE b
Abs(a) == IF a < 0 THEN -a ELSE a

\* Two's complement reinterpretation of an unsigned word as a signed one
\* (`width as i32`).
U32AsI32(u) == IF u > I32Max THEN u - Modulus ELSE u

\* Reinterpretation of a signed word as an unsigned one (`region.x as u32`).
I32AsU32(i) == IF i < 0 THEN i + Modulus ELSE i

\* Wrapping of a mathematical integer into the signed / unsigned word.
WrapI32(n) == U32AsI32(n % Modulus)
WrapU32(n) == n % Modulus

\* The two builds of the program: with overflow checks (an overflowing `+`
\* panics) and without (it wraps).
Builds == {"debug", "release"}

\* `a + b` on i32 / u32: Some(value), or None for a panic.
AddI32(a, b, build) ==
    IF a + b > I32Max \/ a + b < I32Min
    THEN IF build = "debug" THEN None ELSE Some(WrapI32(a + b))
    ELSE Some(a + b)

AddU32(a, b, build) ==
    IF a + b > U32Max
    THEN IF build = "debug" THEN None ELSE Some(WrapU32(a + b))
    ELSE Some(a + b)

\* `f as i32` and `f as u32` for a coordinate f counted in halves: truncation
\* toward zero, saturating at the ends of the target type.
Trunc(h) == IF h >= 0 THEN h \div 2 ELSE -((-h) \div 2)

F64AsI32(h) ==
    IF Trunc(h) > I32Max THEN I32Max
    ELSE IF Trunc(h) < I32Min THEN I32Min ELSE Trunc(h)

F64AsU32(h) ==
    IF Trunc(h) > U32Max THEN U32Max
    ELSE IF Trunc(h) < 0 THEN 0 ELSE Trunc(h)

\* ------------------------------------------------------------------- Region

\* Region::new
Region(x, y, width, height) == [x |-> x, y |-> y, width |-> width, height |-> height]

\* Region::normalize: Some(region), or None when an addition panics.
normalize(r, build) ==
    LET sx == AddI32(r.x, U32AsI32(r.width), build)
        sy == AddI32(r.y, U32AsI32(r.height), build)
    IN  IF sx = None \/ sy = None THEN None
        ELSE Some(Region(Min(r.x, Unwrap(sx)), Min(r.y, Unwrap(sy)), r.width, r.height))

\* ------------------------------------------------------- decimal text of ints

Digits == <<"0", "1", "2", "3", "4", "5", "6", "7", "8", "9">>

IsDigit(c) == \E d \in 1..10 : Digits[d] = c
DigitVal(c) == (CHOOSE d \in 1..10 : Digits[d] = c) - 1

RECURSIVE FormatNat(_)
FormatNat(n) ==
    IF n < 10 THEN <<Digits[n + 1]>>
    ELSE FormatNat(n \div 10) \o <<Digits[(n % 10) + 1]>>

\* `{}` of an integer.
FormatInt(n) == IF n < 0 THEN <<"-">> \o FormatNat(-n) ELSE FormatNat(n)

\* format!("{},{},{},{}", sel.x, sel.y, sel.width, sel.height)
FormatRegion(r) ==
    FormatInt(r.x) \o <<",">> \o FormatInt(r.y) \o <<",">>
        \o FormatInt(r.width) \o <<",">> \o FormatInt(r.height)

\* r.split(',')
RECURSIVE Split(_)
Split(s) ==
    IF \A i \in 1..Len(s) : s[i] # ","
    THEN <<s>>
    ELSE LET k == CHOOSE i \in 1..Len(s) : s[i] = "," /\ \A j \in 1..(i - 1) : s[j] # ","
         IN  <<SubSeq(s, 1, k - 1)>> \o Split(SubSeq(s, k + 1, Len(s)))

\* A string of decimal digits: not empty, digits only, and short enough for
\* its value to be computed (a longer one overflows every word of the model).
AllDigits(s) == Len(s) > 0 /\ Len(s) <= 6 /\ \A i \in 1..Len(s) : IsDigit(s[i])

RECURSIVE DigitsValue(_)
DigitsValue(s) ==
    IF Len(s) = 1 THEN DigitVal(s[1])
    ELSE 10 * DigitsValue(SubSeq(s, 1, Len(s) - 1)) + DigitVal(s[Len(s)])

\* str::parse::<i32>: an optional sign, at least one digit, no overflow.
ParseI32(s) ==
    LET neg  == Len(s) > 0 /\ s[1] = "-"
        sign == Len(s) > 0 /\ s[1] \in {"-", "+"}
        body == IF sign THEN Tail(s) ELSE s
        val  == IF neg THEN -DigitsValue(body) ELSE DigitsValue(body)
    IN  IF ~AllDigits(body) THEN None
        ELSE IF val > I32Max \/ val < I32Min THEN None ELSE Some(val)

\* str::parse::<u32>: an optional "+", at least one digit, no overflow.
ParseU32(s) ==
    LET sign == Len(s) > 0 /\ s[1] = "+"
        body == IF sign THEN Tail(s) ELSE s
    IN  IF ~AllDigits(body) THEN None
        ELSE IF DigitsValue(body) > U32Max THEN None ELSE Some(DigitsValue(body))

\* Args::parse_region, on args.region : Option<String>.
parse_region(region) ==
    IF region = None THEN None
    ELSE LET parts == Split(Unwrap(region))
         IN  IF Len(parts) = 4
             THEN LET x == ParseI32(parts[1])
                      y == ParseI32(parts[2])
                      width  == ParseU32(parts[3])
                      height == ParseU32(parts[4])
                  IN  IF None \in {x, y, width, height} THEN None
                      ELSE Some(Region(Unwrap(x), Unwrap(y), Unwrap(width), Unwrap(height)))
             ELSE None

\* CaptureMode::from_str on a lower-case string: Some(mode) or None.
ModeFromStr(m) ==
    CASE m \in {"screen", "fullscreen", "full"} -> Some("Screen")
      [] m \in {"window", "win"} -> Some("Window")
      [] m \in {"region", "area", "selection", "select"} -> Some("Region")
      [] m \in {"monitor", "display"} -> Some("Monitor")
      [] OTHER -> None

\* Args::parse_mode, on args.mode : Option<String>.
parse_mode(mode) == IF mode = None THEN None ELSE ModeFromStr(Unwrap(mode))

\* ------------------------------------------------------------------- inputs

\* Pointer positions (x, y) in halves of a pixel: (100,100), (300,250) and
\* (300.5,250.5).
Points == {<<200, 200>>, <<600, 500>>, <<601, 501>>}

\* gdk::Monitor::geometry of monitor 0: its offset in the global space.
Geometries == {[x |-> 0, y |-> 0], [x |-> 1920, y |-> 0]}

Keys == {"space", "Escape", "other"}

\* Config::default, and configuration files that change the export.
DefaultConfig ==
    [default_mode |-> "Region", default_format |-> "Png", auto_copy_to_clipboard |-> FALSE,
     duration_ms |-> 800]

Configs ==
    {DefaultConfig,
     [DefaultConfig EXCEPT !.default_format = "Clipboard"],
     [DefaultConfig EXCEPT !.auto_copy_to_clipboard = TRUE]}

\* MODE arguments of the command line.
ModeArgs == {None, Some("screen"), Some("window"), Some("area"), Some("monitor")}

\* --region arguments of the command line: regions as the user types them,
\* among them regions at the ends of the word range, and malformed ones.
CliRegions ==
    {Region(100, 100, 200, 150), Region(0, 0, 600, 400), Region(0, 0, 500, 400),
     Region(-1, 0, 10, 10), Region(10, 0, U32Max - 4, 10),
     Region(0, I32Max, 10, 1)}

RegionArgs ==
    {None, Some(<<"1", ",", "2", ",", "3">>), Some(<<"0", ",", "0", ",", "-", "1", ",", "5">>)}
        \cup {Some(FormatRegion(r)) : r \in CliRegions}

\* What the screenshot portal answers: a failed request or a denied response,
\* a URI that is no file path, a file that does not decode, or an image file.
Answer(kind, width, height) == [kind |-> kind, width |-> width, height |-> height]

PortalAnswers(e) ==
    {Answer("failed", 0, 0), Answer("bad_uri", 0, 0), Answer("undecodable", 0, 0),
     Answer("image", 1920, 1080)}
        \cup (IF e = "cli" THEN {Answer("image", 500, 400)} ELSE {})

\* The inputs of the last poll that the poll reads: the export is reached
\* only with an image, Exporter::save only when the format is a file format,
\* and the clipboard only when the configuration asks for it.  An input that
\* is not read is fixed to TRUE.
InputsRead(cfg, answer, saveOk, clipOk) ==
    /\ answer.kind # "image" => saveOk /\ clipOk
    /\ cfg.default_format = "Clipboard" => saveOk
    /\ (cfg.default_format # "Clipboard" /\ ~cfg.auto_copy_to_clipboard) => clipOk

\* -------------------------------------------------------------------- state

VARIABLES
    entry,         \* "gui": SelectionOverlay::new has run; "cli": headless execute(args)
    monitor_geom,  \* geometry captured by the key handler
    config,        \* the configuration file Config::load reads
    window,        \* the overlay window: "open", "closed", or "none" (headless)
    selection,     \* Rc<RefCell<Option<Region>>>
    drag_start,    \* Rc<RefCell<Option<(f64, f64)>>>
    is_dragging,   \* Rc<RefCell<bool>>
    tasks,         \* the capture futures in the order they were spawned
    files,         \* temporary files on disk
    animated_widget, \* Rc<RefCell<AnimatedWidget>>: progress and showing_controls
    timer,         \* the 16 ms timeout source: "armed", "removed", or "none" (headless)
    clock,         \* start_time.elapsed() in milliseconds, as last read
    cells          \* the borrow flags of the four RefCells, and whether a borrow panicked

envVars == <<entry, monitor_geom, config>>
sessionVars == <<selection, drag_start, is_dragging>>
animVars == <<animated_widget, timer, clock>>
vars == <<entry, monitor_geom, config, window, selection, drag_start, is_dragging, tasks, files,
          animated_widget, timer, clock, cells>>

\* A capture future: the async block of the confirm key (origin "gui") or the
\* execute(args) of main (origin "cli"), with the locals it holds.
NewTask(origin, picked, args) ==
    [origin |-> origin,
     pc |-> "spawned",          \* spawned, delay, portal, done
     picked |-> picked,         \* the selection copied by the key handler
     args |-> args,             \* cli::Args: mode and region, moved into execute
     mode |-> "",               \* CaptureMode of execute_capture
     region |-> None,           \* options.region
     requests |-> 0,            \* portal requests sent
     interactive |-> FALSE,     \* the flag of the portal request
     raster |-> None,           \* dimensions of the image the portal returned
     bounds |-> "unchecked",    \* the bounds check: unchecked, ok, invalid
     image |-> None,            \* the part of the raster in Screenshot::data
     saved |-> FALSE,           \* Exporter::save returned Ok
     copied |-> FALSE,          \* Exporter::copy_to_clipboard returned Ok
     result |-> "Pending",      \* Ok, an error of ScreenshotError, or Panic
     reported |-> FALSE]        \* the error went to standard error

CliArgs(mode, region) == [mode |-> mode, region |-> region]

\* ------------------------------------------------------------ the RefCells

\* The cells the callbacks share.
Cells == {"selection", "drag_start", "is_dragging", "animated_widget"}

\* RefCell::borrow, RefCell::borrow_mut and the drop of the guard, on the
\* borrow flag of the cell: 0 free, n > 0 shared borrows, -1 one mutable
\* borrow.  A borrow the flag does not admit panics.
Borrow(c) == <<"borrow", c>>
BorrowMut(c) == <<"borrow_mut", c>>
Drop(c) == <<"drop", c>>

BorrowStep(op, cs) ==
    LET flag == cs.flags[op[2]]
    IN  CASE op[1] = "borrow" ->
               IF flag < 0 THEN [cs EXCEPT !.panicked = TRUE]
               ELSE [cs EXCEPT !.flags[op[2]] = flag + 1]
          [] op[1] = "borrow_mut" ->
               IF flag # 0 THEN [cs EXCEPT !.panicked = TRUE]
               ELSE [cs EXCEPT !.flags[op[2]] = -1]
          [] OTHER ->
               [cs EXCEPT !.flags[op[2]] = IF flag > 0 THEN flag - 1 ELSE 0]

RECURSIVE Run(_, _)
Run(ops, cs) == IF ops = <<>> THEN cs ELSE Run(Tail(ops), BorrowStep(Head(ops), cs))

\* The borrows of each callback in the order it takes and drops them: a
\* guard made in a statement is dropped at its end, the guard in the
\* scrutinee of an `if let` at the end of the `if let`.
PressedBorrows ==
    <<BorrowMut("drag_start"), Drop("drag_start"),
      BorrowMut("selection"), Drop("selection"),
      BorrowMut("is_dragging"), Drop("is_dragging")>>

ReleasedBorrows ==
    <<Borrow("drag_start")>>
        \o (IF drag_start # None THEN <<BorrowMut("selection"), Drop("selection")>> ELSE <<>>)
        \o <<Drop("drag_start"), BorrowMut("is_dragging"), Drop("is_dragging")>>

MotionBorrows ==
    <<Borrow("is_dragging"), Drop("is_dragging")>>
        \o (IF is_dragging
            THEN <<Borrow("drag_start")>>
                     \o (IF drag_start # None
                         THEN <<BorrowMut("selection"), Drop("selection")>> ELSE <<>>)
                     \o <<Drop("drag_start")>>
            ELSE <<>>)

\* The space branch with its guard moved into the async block and kept for
\* as long as the future lives.
KeyPressedBorrowsHeld(key) ==
    IF key = "space"
    THEN IF selection # None THEN <<Borrow("selection")>>
         ELSE <<Borrow("selection"), Drop("selection")>>
    ELSE <<>>

\* The space branch holds the guard of selection while it spawns the future;
\* the future gets the copied Region, no guard.
KeyPressedBorrows(key) ==
    IF key = "space" THEN <<Borrow("selection"), Drop("selection")>> ELSE <<>>

\* The async block and execute take no borrow of a cell.
PollBorrows == <<>>

TickBorrows(finished) ==
    <<BorrowMut("animated_widget"), Drop("animated_widget")>>
        \o (IF finished THEN <<BorrowMut("animated_widget"), Drop("animated_widget")>> ELSE <<>>)

DrawSelectionBorrows == <<Borrow("selection"), Drop("selection")>>
DrawWidgetBorrows == <<Borrow("animated_widget"), Drop("animated_widget")>>

\* ------------------------------------------------------------ the animation

\* An f64 progress as a fraction of whole milliseconds.
Frac(num, den) == [num |-> num, den |-> den]
FracGeq(a, b) == a.num * b.den >= b.num * a.den

\* What start_time.elapsed().as_millis() returns at a tick.
ElapsedMs == {400, 1200}

\* (elapsed / duration as f64).min(1.0).  With a duration of 0 the quotient
\* is infinite, or NaN for an elapsed time of 0, and f64::min gives 1.0.
Progress(elapsed, duration) ==
    IF duration = 0 \/ elapsed >= duration THEN Frac(1, 1) ELSE Frac(elapsed, duration)

\* AnimatedWidget::update: progress.clamp(0.0, 1.0)
Clamp(progress) ==
    IF ~FracGeq(progress, Frac(0, 1)) THEN Frac(0, 1)
    ELSE IF FracGeq(progress, Frac(1, 1)) THEN Frac(1, 1) ELSE progress

\* The animation taken as finished at half of its duration.
FinishedAtHalf(progress) == FracGeq(progress, Frac(1, 2))

\* progress >= 1.0
Finished(progress) == FracGeq(progress, Frac(1, 1))

\* AnimatedWidget::new
AnimatedWidget == [progress |-> Frac(0, 1), showing_controls |-> FALSE]

\* The overlay is modelled with the default configuration; the command line
\* with each of Configs and, having no monitor of its own, with the offset 0.
\* The command line flags --format and --clipboard are not given.
Init ==
    /\ entry \in {"gui", "cli"}
    /\ monitor_geom \in Geometries
    /\ selection = None
    /\ drag_start = None
    /\ is_dragging = FALSE
    /\ files = {}
    /\ animated_widget = AnimatedWidget
    /\ timer = (IF entry = "gui" THEN "armed" ELSE "none")
    /\ clock = 0
    /\ cells = [flags |-> [c \in Cells |-> 0], panicked |-> FALSE]
    /\ IF entry = "gui"
       THEN /\ config = DefaultConfig
            /\ window = "open"
            /\ tasks = <<>>
       ELSE /\ config \in Configs
            /\ monitor_geom = [x |-> 0, y |-> 0]
            /\ window = "none"
            /\ \E m \in ModeArgs, r \in RegionArgs :
                   tasks = <<NewTask("cli", None, CliArgs(m, r))>>

\* ----------------------------------------------------------- pointer events
\*
\* The controllers belong to the window: window.close() destroys it (no
\* close-request handler is connected), so a closed window delivers no event.
\* The futures live on the main context, not on the window: a future that is
\* still in flight when the window closes may be polled again before the
\* application leaves its main loop, or never.

\* The Region of a drag, with the anchor taken as its corner.
SpanRegionFromAnchor(start, p) ==
    Region(F64AsI32(start[1]), F64AsI32(start[2]),
           F64AsU32(Abs(p[1] - start[1])), F64AsU32(Abs(p[2] - start[2])))

\* The Region built by connect_released and connect_motion from the anchor
\* and the pointer position.
SpanRegion(start, p) ==
    Region(F64AsI32(Min(start[1], p[1])), F64AsI32(Min(start[2], p[2])),
           F64AsU32(Abs(p[1] - start[1])), F64AsU32(Abs(p[2] - start[2])))

\* click.connect_pressed, without the anchor.
PressedKeepsAnchor(p) ==
    /\ window = "open"
    /\ selection' = None
    /\ is_dragging' = TRUE
    /\ UNCHANGED <<envVars, animVars, window, drag_start, tasks, files>>
    /\ cells' = Run(PressedBorrows, cells)

\* click.connect_pressed, with the preview left in place.
PressedKeepsPreview(p) ==
    /\ window = "open"
    /\ drag_start' = Some(p)
    /\ is_dragging' = TRUE
    /\ UNCHANGED <<envVars, animVars, window, selection, tasks, files>>
    /\ cells' = Run(PressedBorrows, cells)

\* click.connect_pressed
Pressed(p) ==
    /\ window = "open"
    /\ drag_start' = Some(p)
    /\ selection' = None
    /\ is_dragging' = TRUE
    /\ UNCHANGED <<envVars, animVars, window, tasks, files>>
    /\ cells' = Run(PressedBorrows, cells)

\* click.connect_released
ReleasedCaptures(p) ==
    /\ window = "open"
    /\ selection' = IF drag_start # None
                    THEN Some(SpanRegion(Unwrap(drag_start), p))
                    ELSE selection
    /\ is_dragging' = FALSE
    /\ tasks' = IF drag_start # None /\ Len(tasks) < MaxTasks
                THEN Append(tasks, NewTask("gui", selection', CliArgs(None, None)))
                ELSE tasks
    /\ UNCHANGED <<envVars, animVars, window, drag_start, files>>
    /\ cells' = Run(ReleasedBorrows, cells)

\* click.connect_released, with a release at the anchor discarded.
ReleasedRejectsEmpty(p) ==
    /\ window = "open"
    /\ selection' = IF drag_start # None /\ Unwrap(drag_start) # p
                    THEN Some(SpanRegion(Unwrap(drag_start), p))
                    ELSE IF drag_start # None THEN None ELSE selection
    /\ is_dragging' = FALSE
    /\ UNCHANGED <<envVars, animVars, window, drag_start, tasks, files>>
    /\ cells' = Run(ReleasedBorrows, cells)

Released(p) ==
    /\ window = "open"
    /\ selection' = IF drag_start # None
                    THEN Some(SpanRegion(Unwrap(drag_start), p))
                    ELSE selection
    /\ is_dragging' = FALSE
    /\ UNCHANGED <<envVars, animVars, window, drag_start, tasks, files>>
    /\ cells' = Run(ReleasedBorrows, cells)

\* motion.connect_motion, without the test of is_dragging.
MotionIgnoresFlag(p) ==
    /\ window = "open"
    /\ selection' = IF drag_start # None
                    THEN Some(SpanRegion(Unwrap(drag_start), p))
                    ELSE selection
    /\ UNCHANGED <<envVars, animVars, window, drag_start, is_dragging, tasks, files>>
    /\ cells' = Run(MotionBorrows, cells)

\* motion.connect_motion, with the anchor following the pointer.
MotionMovesAnchor(p) ==
    /\ window = "open"
    /\ selection' = IF is_dragging /\ drag_start # None
                    THEN Some(SpanRegion(Unwrap(drag_start), p))
                    ELSE selection
    /\ drag_start' = IF is_dragging /\ drag_start # None THEN Some(p) ELSE drag_start
    /\ UNCHANGED <<envVars, animVars, window, is_dragging, tasks, files>>
    /\ cells' = Run(MotionBorrows, cells)

\* motion.connect_motion
Motion(p) ==
    /\ window = "open"
    /\ selection' = IF is_dragging /\ drag_start # None
                    THEN Some(SpanRegion(Unwrap(drag_start), p))
                    ELSE selection
    /\ UNCHANGED <<envVars, animVars, window, drag_start, is_dragging, tasks, files>>
    /\ cells' = Run(MotionBorrows, cells)

\* ----------------------------------------------------- timer and rendering

\* The closure of glib::timeout_add_local: it reads the clock, updates the
\* widget and, once the progress is 1.0, shows the controls and returns
\* ControlFlow::Break, which removes the source.
Tick(elapsed) ==
    /\ timer = "armed"
    /\ elapsed >= clock
    /\ clock' = elapsed
    /\ LET progress == Progress(elapsed, config.duration_ms)
       IN  /\ animated_widget' =
                  [animated_widget EXCEPT
                      !.progress = Clamp(progress),
                      !.showing_controls = IF Finished(progress) THEN TRUE ELSE @]
           /\ timer' = IF Finished(progress) THEN "removed" ELSE "armed"
           /\ cells' = Run(TickBorrows(Finished(progress)), cells)
    /\ UNCHANGED <<envVars, sessionVars, window, tasks, files>>

\* The draw functions of the two drawing areas: they read a cell and paint.
DrawSelection ==
    /\ window = "open"
    /\ cells' = Run(DrawSelectionBorrows, cells)
    /\ UNCHANGED <<envVars, animVars, sessionVars, window, tasks, files>>

DrawWidget ==
    /\ window = "open"
    /\ cells' = Run(DrawWidgetBorrows, cells)
    /\ UNCHANGED <<envVars, animVars, sessionVars, window, tasks, files>>

\* --------------------------------------------------------------- key events

\* key_controller.connect_key_pressed.  The confirm key copies the selection
\* into a new future and spawns it; the cancel key closes the window.
KeyPressedCancelCaptures(key) ==
    /\ window = "open"
    /\ CASE key = "space" ->
              /\ selection # None => Len(tasks) < MaxTasks
              /\ tasks' = IF selection # None
                          THEN Append(tasks, NewTask("gui", selection, CliArgs(None, None)))
                          ELSE tasks
              /\ UNCHANGED window
         [] key = "Escape" ->
              /\ window' = "closed"
              /\ tasks' = IF selection # None /\ Len(tasks) < MaxTasks
                          THEN Append(tasks, NewTask("gui", selection, CliArgs(None, None)))
                          ELSE tasks
         [] OTHER ->
              UNCHANGED <<window, tasks>>
    /\ UNCHANGED <<envVars, animVars, sessionVars, files>>
    /\ cells' = Run(KeyPressedBorrows(key), cells)

\* connect_key_pressed, with a confirm key that closes the window when there
\* is nothing to capture.
KeyPressedConfirmCloses(key) ==
    /\ window = "open"
    /\ CASE key = "space" ->
              /\ selection # None => Len(tasks) < MaxTasks
              /\ tasks' = IF selection # None
                          THEN Append(tasks, NewTask("gui", selection, CliArgs(None, None)))
                          ELSE tasks
              /\ window' = IF selection = None THEN "closed" ELSE window
         [] key = "Escape" ->
              /\ window' = "closed"
              /\ UNCHANGED tasks
         [] OTHER ->
              UNCHANGED <<window, tasks>>
    /\ UNCHANGED <<envVars, animVars, sessionVars, files>>
    /\ cells' = Run(KeyPressedBorrows(key), cells)

\* connect_key_pressed, with the keys taken only once the controls are shown.
KeyPressedWaitsForControls(key) ==
    /\ window = "open"
    /\ animated_widget.showing_controls
    /\ CASE key = "space" ->
              /\ selection # None => Len(tasks) < MaxTasks
              /\ tasks' = IF selection # None
                          THEN Append(tasks, NewTask("gui", selection, CliArgs(None, None)))
                          ELSE tasks
              /\ UNCHANGED window
         [] key = "Escape" ->
              /\ window' = "closed"
              /\ UNCHANGED tasks
         [] OTHER ->
              UNCHANGED <<window, tasks>>
    /\ UNCHANGED <<envVars, animVars, sessionVars, files>>
    /\ cells' = Run(KeyPressedBorrows(key), cells)

KeyPressed(key) ==
    /\ window = "open"
    /\ CASE key = "space" ->
              /\ selection # None => Len(tasks) < MaxTasks
              /\ tasks' = IF selection # None
                          THEN Append(tasks, NewTask("gui", selection, CliArgs(None, None)))
                          ELSE tasks
              /\ UNCHANGED window
         [] key = "Escape" ->
              /\ window' = "closed"
              /\ UNCHANGED tasks
         [] OTHER ->
              UNCHANGED <<window, tasks>>
    /\ UNCHANGED <<envVars, animVars, sessionVars, files>>
    /\ cells' = Run(KeyPressedBorrows(key), cells)

\* ------------------------------------------------------- the capture future

\* sel.x += monitor_geom.x(); sel.y += monitor_geom.y(): Some(region), or
\* None when an addition panics.
TranslateToGlobalTypo(sel, geom, build) ==
    LET gx == AddI32(sel.x, geom.x, build)
        gy == AddI32(sel.y, geom.x, build)
    IN  IF gx = None \/ gy = None THEN None
        ELSE Some(Region(Unwrap(gx), Unwrap(gy), sel.width, sel.height))

TranslateToGlobal(sel, geom, build) ==
    LET gx == AddI32(sel.x, geom.x, build)
        gy == AddI32(sel.y, geom.y, build)
    IN  IF gx = None \/ gy = None THEN None
        ELSE Some(Region(Unwrap(gx), Unwrap(gy), sel.width, sel.height))

\* The cli::Args the async block builds from the translated selection.
OverlayArgs(sel) == CliArgs(Some("screen"), Some(FormatRegion(sel)))

\* The flag WaylandBackend::capture passes to capture_via_portal.
InteractiveInverted(mode) ==
    CASE mode = "Screen" -> TRUE
      [] mode \in {"Window", "Region"} -> FALSE
      [] mode = "Monitor" -> TRUE

Interactive(mode) ==
    CASE mode = "Screen" -> FALSE
      [] mode \in {"Window", "Region"} -> TRUE
      [] mode = "Monitor" -> FALSE

\* The temporary files: the image file the portal wrote for the i-th future,
\* and the file Exporter::copy_to_clipboard writes.
Artifact(i) == <<"portal", i>>
ClipboardFile == <<"wst_clipboard.png", 0>>

\* image::imageops::crop_imm: the sub-image, clamped to the raster.
crop_imm(raster, x, y, width, height) ==
    LET cx == Min(x, raster.width)
        cy == Min(y, raster.height)
    IN  Region(cx, cy, Min(width, raster.width - cx), Min(height, raster.height - cy))

\* The region branch of WaylandBackend::capture on the raster the portal
\* returned: the bounds check (`||` evaluates its operands from left to right
\* and stops at the first that is true) and the crop.
CropToRegion(region, raster, build) ==
    IF region = None
    THEN [bounds |-> "unchecked", image |-> Some(Region(0, 0, raster.width, raster.height))]
    ELSE LET n == normalize(Unwrap(region), build)
             r == Unwrap(n)
             right == AddU32(I32AsU32(r.x), r.width, build)
             below == AddU32(I32AsU32(r.y), r.height, build)
             Invalid == [bounds |-> "invalid", image |-> None]
             Panic == [bounds |-> "panic", image |-> None]
         IN  IF n = None THEN Panic
             ELSE IF r.x < 0 \/ r.y < 0 THEN Invalid
             ELSE IF right = None THEN Panic
             ELSE IF Unwrap(right) > raster.width THEN Invalid
             ELSE IF below = None THEN Panic
             ELSE IF Unwrap(below) > raster.height THEN Invalid
             ELSE [bounds |-> "ok",
                   image |-> Some(crop_imm(raster, I32AsU32(r.x), I32AsU32(r.y),
                                           r.width, r.height))]

\* Exporter::copy_to_clipboard: the temporary file is written, then piped to
\* wl-copy, which may be missing or fail.
copy_to_clipboard(clipOk) ==
    [copied |-> clipOk, result |-> IF clipOk THEN "Ok" ELSE "Config", temp |-> {ClipboardFile}]

\* The export of execute_capture: Exporter::save unless the format is the
\* clipboard, then the copy to the clipboard when asked for.
Export(cfg, saveOk, clipOk) ==
    IF cfg.default_format # "Clipboard"
    THEN IF ~saveOk
         THEN [saved |-> FALSE, copied |-> FALSE, result |-> "Io", temp |-> {}]
         ELSE IF cfg.auto_copy_to_clipboard
              THEN [saved |-> TRUE] @@ copy_to_clipboard(clipOk)
              ELSE [saved |-> TRUE, copied |-> FALSE, result |-> "Ok", temp |-> {}]
    ELSE [saved |-> FALSE] @@ copy_to_clipboard(clipOk)

\* The end of a future: main reports an error it returns, and so does the
\* async block, which then closes the window.
Finish(t, result) ==
    [t EXCEPT !.pc = "done", !.result = result, !.reported = (result # "Ok")]

\* window_clone.close() at the end of the async block; main has no window.
WindowAfterOkOnly(t) ==
    IF t.origin = "gui" /\ t.pc = "done" /\ t.result = "Ok" THEN "closed" ELSE window

WindowAfter(t) == IF t.origin = "gui" /\ t.pc = "done" THEN "closed" ELSE window

\* First poll, with the async block reading the selection cell when it is
\* polled instead of the copy the key handler moved into it.
PollStartReadsCell(i, wayland, build) ==
    /\ i \in DOMAIN tasks
    /\ tasks[i].pc = "spawned"
    /\ LET t == tasks[i]
           cell == IF selection # None THEN selection ELSE t.picked
           sel == IF t.origin = "gui"
                  THEN TranslateToGlobal(Unwrap(cell), monitor_geom, build)
                  ELSE Some(Region(0, 0, 0, 0))
           args == IF t.origin = "gui" THEN OverlayArgs(Unwrap(sel)) ELSE t.args
           m == parse_mode(args.mode)
           mode == IF m = None THEN config.default_mode ELSE Unwrap(m)
           opts == [t EXCEPT !.args = CliArgs(None, None), !.mode = mode,
                            !.region = parse_region(args.region)]
       IN  IF sel = None
           THEN tasks' = [tasks EXCEPT ![i] = Finish(t, "Panic")]
           ELSE IF ~wayland
           THEN tasks' = [tasks EXCEPT ![i] = Finish(opts, "BackendUnavailable")]
           ELSE tasks' = [tasks EXCEPT ![i] = [opts EXCEPT !.pc = "delay"]]
    /\ window' = WindowAfter(tasks'[i])
    /\ UNCHANGED <<envVars, animVars, sessionVars, files>>
    /\ cells' = Run(PollBorrows, cells)

\* First poll.  The async block translates the selection and builds the
\* arguments; execute loads the configuration; execute_capture parses mode
\* and region and creates the backend (WAYLAND_DISPLAY set or not), and
\* WaylandBackend::capture suspends in the delay.
PollStart(i, wayland, build) ==
    /\ i \in DOMAIN tasks
    /\ tasks[i].pc = "spawned"
    /\ LET t == tasks[i]
           sel == IF t.origin = "gui"
                  THEN TranslateToGlobal(Unwrap(t.picked), monitor_geom, build)
                  ELSE Some(Region(0, 0, 0, 0))
           args == IF t.origin = "gui" THEN OverlayArgs(Unwrap(sel)) ELSE t.args
           m == parse_mode(args.mode)
           mode == IF m = None THEN config.default_mode ELSE Unwrap(m)
           opts == [t EXCEPT !.args = CliArgs(None, None), !.mode = mode,
                            !.region = parse_region(args.region)]
       IN  IF sel = None
           THEN tasks' = [tasks EXCEPT ![i] = Finish(t, "Panic")]
           ELSE IF ~wayland
           THEN tasks' = [tasks EXCEPT ![i] = Finish(opts, "BackendUnavailable")]
           ELSE tasks' = [tasks EXCEPT ![i] = [opts EXCEPT !.pc = "delay"]]
    /\ window' = WindowAfter(tasks'[i])
    /\ UNCHANGED <<envVars, animVars, sessionVars, files>>
    /\ cells' = Run(PollBorrows, cells)

\* Second poll: the delay has elapsed and capture_via_portal sends the one
\* screenshot request, then suspends until the portal answers.
PollDelay(i) ==
    /\ i \in DOMAIN tasks
    /\ tasks[i].pc = "delay"
    /\ tasks' = [tasks EXCEPT ![i] = [@ EXCEPT !.pc = "portal",
                                               !.requests = @ + 1,
                                               !.interactive = Interactive(tasks[i].mode)]]
    /\ UNCHANGED <<envVars, animVars, sessionVars, window, files>>
    /\ cells' = Run(PollBorrows, cells)

\* Last poll, with the region checked against the nominal size of the
\* monitor before the answer of the portal is looked at.
PollPortalChecksFirst(i, answer, build, saveOk, clipOk) ==
    /\ i \in DOMAIN tasks
    /\ tasks[i].pc = "portal"
    /\ InputsRead(config, answer, saveOk, clipOk)
    /\ LET nominal == [width |-> 1920, height |-> 1080]
           t == [tasks[i] EXCEPT !.bounds = CropToRegion(tasks[i].region, nominal, build).bounds]
           raster == [width |-> answer.width, height |-> answer.height]
           crop == CropToRegion(t.region, raster, build)
           exp == Export(config, saveOk, clipOk)
           got == [t EXCEPT !.raster = Some(raster), !.bounds = crop.bounds]
       IN  CASE answer.kind \in {"failed", "bad_uri"} ->
                  /\ tasks' = [tasks EXCEPT ![i] = Finish(t, "Portal")]
                  /\ UNCHANGED files
             [] answer.kind = "undecodable" ->
                  /\ tasks' = [tasks EXCEPT ![i] = Finish(t, "Image")]
                  /\ files' = files \cup {Artifact(i)}
             [] answer.kind = "image" /\ crop.bounds = "panic" ->
                  /\ tasks' = [tasks EXCEPT ![i] = Finish(got, "Panic")]
                  /\ files' = files \cup {Artifact(i)}
             [] answer.kind = "image" /\ crop.bounds = "invalid" ->
                  /\ tasks' = [tasks EXCEPT ![i] = Finish(got, "InvalidRegion")]
                  /\ files' = files \cup {Artifact(i)}
             [] OTHER ->
                  /\ tasks' = [tasks EXCEPT ![i] =
                                  Finish([got EXCEPT !.image = crop.image,
                                                     !.saved = exp.saved,
                                                     !.copied = exp.copied], exp.result)]
                  /\ files' = files \cup {Artifact(i)} \cup exp.temp
    /\ window' = WindowAfter(tasks'[i])
    /\ UNCHANGED <<envVars, animVars, sessionVars>>
    /\ cells' = Run(PollBorrows, cells)

\* Last poll, with the export done before the result of the bounds check is
\* returned.
PollPortalExportsFirst(i, answer, build, saveOk, clipOk) ==
    /\ i \in DOMAIN tasks
    /\ tasks[i].pc = "portal"
    /\ InputsRead(config, answer, saveOk, clipOk)
    /\ LET t == tasks[i]
           raster == [width |-> answer.width, height |-> answer.height]
           crop == CropToRegion(t.region, raster, build)
           exp == Export(config, saveOk, clipOk)
           got == [t EXCEPT !.raster = Some(raster), !.bounds = crop.bounds]
       IN  CASE answer.kind \in {"failed", "bad_uri"} ->
                  /\ tasks' = [tasks EXCEPT ![i] = Finish(t, "Portal")]
                  /\ UNCHANGED files
             [] answer.kind = "undecodable" ->
                  /\ tasks' = [tasks EXCEPT ![i] = Finish(t, "Image")]
                  /\ files' = files \cup {Artifact(i)}
             [] answer.kind = "image" /\ crop.bounds = "panic" ->
                  /\ tasks' = [tasks EXCEPT ![i] = Finish(got, "Panic")]
                  /\ files' = files \cup {Artifact(i)}
             [] answer.kind = "image" /\ crop.bounds = "invalid" ->
                  /\ tasks' = [tasks EXCEPT ![i] =
                                  Finish([got EXCEPT !.saved = exp.saved,
                                                     !.copied = exp.copied], "InvalidRegion")]
                  /\ files' = files \cup {Artifact(i)} \cup exp.temp
             [] OTHER ->
                  /\ tasks' = [tasks EXCEPT ![i] =
                                  Finish([got EXCEPT !.image = crop.image,
                                                     !.saved = exp.saved,
                                                     !.copied = exp.copied], exp.result)]
                  /\ files' = files \cup {Artifact(i)} \cup exp.temp
    /\ window' = WindowAfter(tasks'[i])
    /\ UNCHANGED <<envVars, animVars, sessionVars>>
    /\ cells' = Run(PollBorrows, cells)

\* Last poll: the portal has answered.  capture_via_portal opens the file,
\* capture checks and crops, execute_capture exports, and the future ends.
PollPortal(i, answer, build, saveOk, clipOk) ==
    /\ i \in DOMAIN tasks
    /\ tasks[i].pc = "portal"
    /\ InputsRead(config, answer, saveOk, clipOk)
    /\ LET t == tasks[i]
           raster == [width |-> answer.width, height |-> answer.height]
           crop == CropToRegion(t.region, raster, build)
           exp == Export(config, saveOk, clipOk)
           got == [t EXCEPT !.raster = Some(raster), !.bounds = crop.bounds]
       IN  CASE answer.kind \in {"failed", "bad_uri"} ->
                  /\ tasks' = [tasks EXCEPT ![i] = Finish(t, "Portal")]
                  /\ UNCHANGED files
             [] answer.kind = "undecodable" ->
                  /\ tasks' = [tasks EXCEPT ![i] = Finish(t, "Image")]
                  /\ files' = files \cup {Artifact(i)}
             [] answer.kind = "image" /\ crop.bounds = "panic" ->
                  /\ tasks' = [tasks EXCEPT ![i] = Finish(got, "Panic")]
                  /\ files' = files \cup {Artifact(i)}
             [] answer.kind = "image" /\ crop.bounds = "invalid" ->
                  /\ tasks' = [tasks EXCEPT ![i] = Finish(got, "InvalidRegion")]
                  /\ files' = files \cup {Artifact(i)}
             [] OTHER ->
                  /\ tasks' = [tasks EXCEPT ![i] =
                                  Finish([got EXCEPT !.image = crop.image,
                                                     !.saved = exp.saved,
                                                     !.copied = exp.copied], exp.result)]
                  /\ files' = files \cup {Artifact(i)} \cup exp.temp
    /\ window' = WindowAfter(tasks'[i])
    /\ UNCHANGED <<envVars, animVars, sessionVars>>
    /\ cells' = Run(PollBorrows, cells)

\* ------------------------------------------------------------ specification

Next ==
    \/ \E p \in Points : Pressed(p)
    \/ \E p \in Points : Released(p)
    \/ \E p \in Points : Motion(p)
    \/ \E key \in Keys : KeyPressed(key)
    \/ \E i \in 1..MaxTasks, wayland \in BOOLEAN, build \in Builds : PollStart(i, wayland, build)
    \/ \E i \in 1..MaxTasks : PollDelay(i)
    \/ \E i \in 1..MaxTasks, answer \in PortalAnswers(entry), build \in Builds,
          saveOk \in BOOLEAN, clipOk \in BOOLEAN :
          PollPortal(i, answer, build, saveOk, clipOk)

Spec == Init /\ [][Next]_vars

\* The main loop with the timer and the draw functions as well.  They write
\* no variable that an action of Next reads, so Spec is OverlaySpec seen
\* without the animation; the claims on the animation and on the borrows are
\* stated for OverlaySpec.
OverlayNext ==
    \/ Next
    \/ \E elapsed \in ElapsedMs : Tick(elapsed)
    \/ DrawSelection
    \/ DrawWidget

OverlaySpec == Init /\ [][OverlayNext]_vars

\* ------------------------------------------------------------------ claims

GuiTasks == {i \in DOMAIN tasks : tasks[i].origin = "gui"}
InFlight(t) == t.pc # "done"

\* The region fits the raster, the sums taken as mathematical integers.
Fits(r, raster) ==
    /\ r.x >= 0
    /\ r.y >= 0
    /\ r.x + r.width <= raster.width
    /\ r.y + r.height <= raster.height

\* C1: in one overlay session the confirm key invokes the capture at most
\* once; a further confirm key spawns no further capture, so no two captures
\* of a session are ever in flight.
C1_CaptureAtMostOnce ==
    /\ Cardinality(GuiTasks) <= 1
    /\ Cardinality({i \in GuiTasks : InFlight(tasks[i])}) <= 1

\* C2: a cancel key pressed before any confirm has committed closes the
\* window without invoking the capture, and nothing that follows invokes it:
\* once the window is closed with no capture spawned, it stays so.
C2_CancelBeforeCommit ==
    [][/\ (KeyPressed("Escape") /\ tasks = <<>>) => (window' = "closed" /\ tasks' = <<>>)
       /\ (window = "closed" /\ tasks = <<>>) => (window' = "closed" /\ tasks' = <<>>)]_vars

W_C2_CancelledInPreview ==
    /\ entry = "gui"
    /\ window = "closed"
    /\ tasks = <<>>
    /\ selection # None
    /\ ~is_dragging

\* C3: once a confirm has spawned the capture, the window is not closed while
\* the capture is in flight.
C3_NoCloseInFlight ==
    \A i \in GuiTasks : InFlight(tasks[i]) => window = "open"

\* C4: whenever the capture started by a confirm has returned, with success
\* or with any error, the window is closed, and an error has been reported.
C4_TeardownOnEveryOutcome ==
    \A i \in GuiTasks :
        tasks[i].pc = "done" =>
            /\ window = "closed"
            /\ tasks[i].result # "Ok" => tasks[i].reported

W_C4_ClosedAfterError ==
    \E i \in GuiTasks :
        /\ tasks[i].pc = "done"
        /\ tasks[i].result = "InvalidRegion"
        /\ tasks[i].reported
        /\ window = "closed"

\* C5: pointer events never invoke the capture: a press, move or release
\* leaves the captures as they are, and every step that spawns a capture is
\* a confirm key.
C5_PointerNeverCaptures ==
    [][/\ (\E p \in Points : Pressed(p) \/ Released(p) \/ Motion(p)) => UNCHANGED tasks
       /\ Len(tasks') > Len(tasks) => KeyPressed("space")]_vars

W_C5_SelectedNoCapture ==
    /\ entry = "gui"
    /\ window = "open"
    /\ selection = Some(Region(100, 100, 200, 150))
    /\ ~is_dragging
    /\ tasks = <<>>

\* C6: the region handed to the capture is the selection current at the
\* confirm key, x and y increased by the monitor's offset, width and height
\* unchanged.
C6_CommitTranslatesToGlobal ==
    [][\A i \in DOMAIN tasks' :
          tasks'[i].origin = "gui" =>
              /\ i \notin DOMAIN tasks => tasks'[i].picked = selection
              /\ (tasks'[i].pc # "spawned" /\ tasks'[i].result # "Panic") =>
                     tasks'[i].region =
                         Some(Region(Unwrap(tasks'[i].picked).x + monitor_geom.x,
                                     Unwrap(tasks'[i].picked).y + monitor_geom.y,
                                     Unwrap(tasks'[i].picked).width,
                                     Unwrap(tasks'[i].picked).height))]_vars

W_C6_SecondMonitor ==
    /\ monitor_geom = [x |-> 1920, y |-> 0]
    /\ \E i \in GuiTasks :
          /\ tasks[i].picked = Some(Region(100, 100, 200, 150))
          /\ tasks[i].region = Some(Region(2020, 100, 200, 150))

\* C7: with a raster of W x H, capture accepts a region r exactly when
\* r.x >= 0, r.y >= 0, r.x + r.width <= W and r.y + r.height <= H, the sums
\* taken as mathematical integers, and fails with InvalidRegion otherwise.
C7_BoundsCheckExact ==
    \A i \in DOMAIN tasks :
        (tasks[i].raster # None /\ tasks[i].region # None) =>
            /\ tasks[i].bounds = "ok" <=> Fits(Unwrap(tasks[i].region), Unwrap(tasks[i].raster))
            /\ tasks[i].bounds # "ok" => tasks[i].result = "InvalidRegion"

\* C8: whenever capture is given a region and returns an image, the image is
\* the region.width x region.height pixels at (region.x, region.y) of the
\* raster, never a smaller, clamped one.
C8_CropExact ==
    \A i \in DOMAIN tasks :
        (tasks[i].region # None /\ tasks[i].image # None) =>
            tasks[i].image = tasks[i].region

\* C9: when a capture has ended, with success or with an error, no temporary
\* file created for it remains on disk.
C9_NoTemporaryFileLeft ==
    /\ \A i \in DOMAIN tasks : tasks[i].pc = "done" => Artifact(i) \notin files
    /\ (\A i \in DOMAIN tasks : tasks[i].pc = "done") => ClipboardFile \notin files

\* C10: a capture sends at most one portal request; Screen and Monitor modes
\* send it with interactive = false, Window and Region modes with
\* interactive = true; the capture of the confirm key is in Screen mode and
\* not interactive.
C10_ModeFixesInteractivity ==
    \A i \in DOMAIN tasks :
        /\ tasks[i].requests <= 1
        /\ tasks[i].requests = 1 =>
               /\ tasks[i].mode \in {"Screen", "Monitor"} => ~tasks[i].interactive
               /\ tasks[i].mode \in {"Window", "Region"} => tasks[i].interactive
               /\ tasks[i].mode \in {"Screen", "Monitor", "Window", "Region"}
        /\ (tasks[i].origin = "gui" /\ tasks[i].pc # "spawned" /\ tasks[i].result # "Panic") =>
               tasks[i].mode = "Screen"

W_C10_OverlayRequest ==
    \E i \in GuiTasks :
        /\ tasks[i].requests = 1
        /\ tasks[i].mode = "Screen"
        /\ ~tasks[i].interactive

\* The export of a future was invoked: Exporter::save or copy_to_clipboard
\* returned Ok, or the future ended with the error of one of them.
ExportInvoked(t) == t.saved \/ t.copied \/ t.result \in {"Io", "Config"}

\* C11: the export is invoked only after the backend was created, the capture
\* returned a raster and the bounds check and the crop went through; a
\* future that ends with the error of one of these steps has exported nothing.
C11_NoExportBeforeCrop ==
    \A i \in DOMAIN tasks :
        /\ ExportInvoked(tasks[i]) =>
               /\ tasks[i].requests = 1
               /\ tasks[i].raster # None
               /\ tasks[i].bounds \in {"ok", "unchecked"}
               /\ tasks[i].image # None
        /\ tasks[i].result \in {"BackendUnavailable", "Portal", "Image", "InvalidRegion", "Panic"} =>
               /\ ~tasks[i].saved
               /\ ~tasks[i].copied
               /\ tasks[i].image = None

W_C11_InvalidRegionNothingExported ==
    \E i \in DOMAIN tasks :
        /\ tasks[i].pc = "done"
        /\ tasks[i].result = "InvalidRegion"
        /\ tasks[i].raster = Some([width |-> 500, height |-> 400])
        /\ tasks[i].region = Some(Region(0, 0, 600, 400))
        /\ ~ExportInvoked(tasks[i])

\* C12: a drag anchored at a and released at b leaves the region a drag
\* anchored at b and ending at a spans: x and y are the smaller of the two
\* coordinates, width and height the absolute differences, and normalize
\* leaves it as it is.
C12_DirectionIndependent ==
    [][\A a \in Points : \A b \in Points :
          (drag_start = Some(a) /\ Released(b)) =>
              /\ selection' = Some(SpanRegion(b, a))
              /\ selection' = Some(Region(F64AsI32(Min(a[1], b[1])),
                                          F64AsI32(Min(a[2], b[2])),
                                          F64AsU32(Abs(a[1] - b[1])),
                                          F64AsU32(Abs(a[2] - b[2]))))
              /\ \A build \in Builds :
                     normalize(SpanRegion(a, b), build) = Some(SpanRegion(b, a))]_vars

W_C12_DragUpLeft ==
    /\ drag_start = Some(<<600, 500>>)
    /\ ~is_dragging
    /\ selection = Some(Region(100, 100, 200, 150))

\* C13: while is_dragging is set, drag_start holds an anchor.
C13_DraggingHasAnchor == is_dragging => drag_start # None

W_C13_DraggingFromAnchor ==
    /\ is_dragging
    /\ drag_start = Some(<<601, 501>>)
    /\ selection = Some(Region(100, 100, 200, 150))

\* The states of the selection session, read from its fields: no press yet,
\* between a press and its release, and after a release.
Idle == drag_start = None /\ ~is_dragging
Dragging == is_dragging
Previewing == drag_start # None /\ ~is_dragging

\* C14: a confirm key in Idle or in Dragging changes nothing: the session,
\* the window and the capture futures stay as they are.
C14_ConfirmOnlyInPreviewing ==
    [][((Idle \/ Dragging) /\ KeyPressed("space")) =>
          /\ tasks' = tasks
          /\ UNCHANGED <<sessionVars, window, files>>]_vars

\* C15: a confirm key while selection is None spawns no capture future,
\* reports no error, leaves the window open and the session as it is.
C15_ConfirmWithoutSelectionIgnored ==
    [][(selection = None /\ KeyPressed("space")) =>
          /\ tasks' = tasks
          /\ window' = "open"
          /\ UNCHANGED <<sessionVars, files>>]_vars

W_C15_PressedNothingSpawned ==
    /\ window = "open"
    /\ is_dragging
    /\ drag_start = Some(<<200, 200>>)
    /\ selection = None
    /\ tasks = <<>>

\* C16: a release during a drag sets selection to the rectangle spanned by
\* the anchor and the pointer and clears is_dragging and the anchor; outside
\* a drag, a release or a move leaves selection as it is.
C16_ReleaseFinalizes ==
    [][\A p \in Points :
          /\ (Dragging /\ Released(p)) =>
                 /\ selection' = Some(SpanRegion(Unwrap(drag_start), p))
                 /\ ~is_dragging'
                 /\ drag_start' = None
          /\ (~Dragging /\ (Released(p) \/ Motion(p))) =>
                 selection' = selection]_vars

\* C17: a press at p stores p in drag_start, sets is_dragging and leaves
\* selection None, whatever it was.
C17_PressStartsOver ==
    [][\A p \in Points :
          Pressed(p) =>
              /\ drag_start' = Some(p)
              /\ is_dragging'
              /\ selection' = None
              /\ UNCHANGED <<window, tasks, files>>]_vars

W_C17_PressedAfterPreview ==
    /\ window = "open"
    /\ is_dragging
    /\ drag_start = Some(<<600, 500>>)
    /\ selection = None
    /\ \E i \in GuiTasks : tasks[i].picked = Some(Region(100, 100, 200, 150))

\* C18: a move to p during a drag sets selection to the rectangle spanned by
\* the anchor and p and leaves everything else; the state it leaves is one
\* the same move maps to itself.
C18_MoveUpdatesPreviewOnly ==
    [][\A p \in Points :
          (Dragging /\ Motion(p)) =>
              /\ selection' = Some(SpanRegion(Unwrap(drag_start), p))
              /\ UNCHANGED <<drag_start, is_dragging, window, tasks, files>>
              /\ is_dragging' /\ drag_start' # None
              /\ selection' = Some(SpanRegion(Unwrap(drag_start'), p))]_vars

W_C18_MovedWhileDragging ==
    /\ is_dragging
    /\ drag_start = Some(<<200, 200>>)
    /\ selection = Some(Region(100, 100, 200, 150))
    /\ tasks = <<>>

\* C19: a release at the anchor, directly after the press, leaves a selection
\* of width 0 and height 0 at that point, and a confirm key then spawns the
\* capture future with it.
C19_EmptySelectionKept ==
    [][\A p \in Points :
          /\ (Dragging /\ selection = None /\ drag_start = Some(p) /\ Released(p)) =>
                 selection' = Some(Region(F64AsI32(p[1]), F64AsI32(p[2]), 0, 0))
          /\ (~Dragging /\ selection = Some(SpanRegion(p, p)) /\ KeyPressed("space")) =>
                 tasks' = Append(tasks, NewTask("gui", selection, CliArgs(None, None)))]_vars

W_C19_EmptySelectionAtPortal ==
    \E i \in GuiTasks :
        /\ tasks[i].picked = Some(Region(300, 250, 0, 0))
        /\ tasks[i].pc = "portal"
        /\ tasks[i].requests = 1

\* C20: normalize, applied by the capture to the region of its options,
\* returns in every build a region (no addition overflows) with the width,
\* the height and the corner of its argument, and maps that region to itself.
C20_NormalizeTotal ==
    \A i \in DOMAIN tasks :
        (tasks[i].region # None /\ tasks[i].raster # None) =>
            \A build \in Builds :
                LET r == Unwrap(tasks[i].region)
                    n == normalize(r, build)
                IN  /\ n # None
                    /\ Unwrap(n).width = r.width
                    /\ Unwrap(n).height = r.height
                    /\ Unwrap(n).x = r.x
                    /\ Unwrap(n).y = r.y
                    /\ normalize(Unwrap(n), build) = n

\* The bounds check of a future has run where the code places it: with the
\* raster in hand, on the region of the options (for the overlay, the
\* translated selection), with the outcome the check and normalize give in
\* one of the builds, and with a crop only after a check that passed.
CheckedInPlace(t) ==
    /\ t.bounds # "unchecked" =>
           /\ t.pc = "done"
           /\ t.raster # None
           /\ t.region # None
           /\ \E build \in Builds :
                  t.bounds = CropToRegion(t.region, Unwrap(t.raster), build).bounds
           /\ t.origin = "gui" =>
                  \E build \in Builds :
                      t.region = TranslateToGlobal(Unwrap(t.picked), monitor_geom, build)
    /\ (t.image # None /\ t.region # None) => t.bounds = "ok"
    /\ t.result = "InvalidRegion" => t.bounds = "invalid"
    /\ t.result \in {"BackendUnavailable", "Portal", "Image"} =>
           t.bounds = "unchecked" /\ t.raster = None

\* C21: the bounds check runs only once the raster is there, on the
\* normalized and translated region, right before the crop; a capture that
\* fails is reported with the region unchecked, and press, release and move
\* never check a region or end a future with InvalidRegion.
C21_BoundsCheckAfterCapture ==
    [][/\ \A i \in DOMAIN tasks' : CheckedInPlace(tasks'[i])
       /\ \A p \in Points :
              (Pressed(p) \/ Released(p) \/ Motion(p)) => tasks' = tasks]_vars

W_C21_CaptureFailedUnchecked ==
    \E i \in GuiTasks :
        /\ tasks[i].pc = "done"
        /\ tasks[i].result = "Portal"
        /\ tasks[i].region = Some(Region(2020, 100, 200, 150))
        /\ tasks[i].bounds = "unchecked"

\* C22: a capture future keeps the copy of the selection it was spawned with
\* and is cropped to the translation of that copy; press, release and move
\* change no future, and a poll of a future changes no session cell.
C22_CaptureOwnsItsRegion ==
    [][/\ \A i \in DOMAIN tasks :
              /\ tasks'[i].picked = tasks[i].picked
              /\ tasks[i].region # None => tasks'[i].region = tasks[i].region
       /\ \A i \in DOMAIN tasks' :
              (tasks'[i].origin = "gui" /\ tasks'[i].region # None) =>
                  \E build \in Builds :
                      tasks'[i].region =
                          TranslateToGlobal(Unwrap(tasks'[i].picked), monitor_geom, build)
       /\ \A p \in Points :
              (Pressed(p) \/ Released(p) \/ Motion(p)) => tasks' = tasks
       /\ (\E i \in DOMAIN tasks : tasks'[i] # tasks[i]) => UNCHANGED sessionVars]_vars

W_C22_SessionMovedOn ==
    \E i \in GuiTasks :
        /\ tasks[i].pc = "done"
        /\ tasks[i].result = "Ok"
        /\ tasks[i].picked = Some(Region(100, 100, 200, 150))
        /\ tasks[i].image = Some(Region(100, 100, 200, 150))
        /\ selection = Some(Region(300, 250, 0, 0))
        /\ drag_start = Some(<<601, 501>>)

\* C25: between a release and the next press a move changes nothing, and a
\* confirm key then hands the capture the selection as the release left it.
C25_MovesAfterReleaseIgnored ==
    [][/\ \A p \in Points :
              (Previewing /\ Motion(p)) => UNCHANGED <<sessionVars, window, tasks, files>>
       /\ (Previewing /\ selection # None /\ KeyPressed("space")) =>
              /\ Len(tasks') = Len(tasks) + 1
              /\ tasks'[Len(tasks')].picked = selection
              /\ tasks'[Len(tasks')].pc = "spawned"]_vars

W_C25_CapturedAsReleased ==
    /\ Previewing
    /\ drag_start = Some(<<200, 200>>)
    /\ selection = Some(Region(100, 100, 200, 150))
    /\ Len(tasks) = 1
    /\ tasks[1].picked = selection
    /\ tasks[1].pc = "spawned"

\* C23: the progress stays in [0,1] and never decreases; the tick at which it
\* reaches 1.0 sets showing_controls and removes the timer, after which the
\* animation no longer changes; showing_controls is never set below 1.0.
C23_ProgressMonotone ==
    [][/\ FracGeq(animated_widget'.progress, Frac(0, 1))
       /\ FracGeq(Frac(1, 1), animated_widget'.progress)
       /\ FracGeq(animated_widget'.progress, animated_widget.progress)
       /\ animated_widget'.showing_controls => FracGeq(animated_widget'.progress, Frac(1, 1))
       /\ (timer = "armed" /\ FracGeq(animated_widget'.progress, Frac(1, 1))) =>
              animated_widget'.showing_controls /\ timer' = "removed"
       /\ timer = "removed" => UNCHANGED animVars]_vars

W_C23_ControlsShownAtOne ==
    /\ window = "open"
    /\ clock = 1200
    /\ animated_widget.progress = Frac(1, 1)
    /\ animated_widget.showing_controls
    /\ timer = "removed"

\* C24: a tick of the timer leaves the session, the window and the futures
\* as they are, and the keys are taken at every progress value: while the
\* window is open the cancel key closes it and the confirm key spawns the
\* capture of the selection, whether or not the controls are shown.
C24_AnimationIndependent ==
    /\ [](window = "open" =>
             /\ ENABLED KeyPressed("Escape")
             /\ Len(tasks) < MaxTasks => ENABLED KeyPressed("space"))
    /\ [][/\ (\E elapsed \in ElapsedMs : Tick(elapsed)) =>
                 UNCHANGED <<sessionVars, window, tasks, files>>
          /\ \A key \in Keys :
                 KeyPressed(key) =>
                     /\ UNCHANGED animVars
                     /\ window' = IF key = "Escape" THEN "closed" ELSE window
                     /\ tasks' = IF key = "space" /\ selection # None
                                 THEN Append(tasks, NewTask("gui", selection, CliArgs(None, None)))
                                 ELSE tasks]_vars

W_C24_ConfirmedBeforeControls ==
    /\ animated_widget.progress = Frac(400, 800)
    /\ ~animated_widget.showing_controls
    /\ selection = Some(Region(100, 100, 200, 150))
    /\ Len(tasks) = 1
    /\ tasks[1].picked = selection

\* C26: no borrow of a session cell panics, and no guard outlives the
\* callback or the poll of the capture future that took it.
C26_NoBorrowConflict ==
    /\ ~cells.panicked
    /\ \A c \in Cells : cells.flags[c] = 0

W_C26_EveryCallbackRan ==
    /\ \E i \in GuiTasks : tasks[i].pc = "portal"
    /\ is_dragging
    /\ selection = Some(Region(100, 100, 200, 150))
    /\ animated_widget.showing_controls
    /\ window = "open"

====
